---- MODULE Spec2Model ----
(***************************************************************************)
(* A model of the structured-coding engine of src/utils.py: the retry      *)
(* decorator retry_with_backoff, the chat-completion client's request      *)
(* loop, and auto_code_content / auto_code_video with their extraction     *)
(* stages and their validation of categorical values; and the reliability  *)
(* page's calculate button (src/pages) with calculate_percentage_agreement *)
(* and calculate_krippendorff_alpha, whose float arithmetic is kept exact.  *)
(*                                                                         *)
(* Text is modelled as a sequence of one-character strings.  The JSON      *)
(* reader follows Python's json.loads (objects, arrays, strings with the   *)
(* simple escapes, numbers, true/false/null, NaN/Infinity); \b, \f and     *)
(* \uXXXX escapes are outside the modelled alphabet.                       *)
(***************************************************************************)
EXTENDS Integers, Sequences, FiniteSets, TLC

\* ------------------------------------------------------------------ text

Q == "\""
BS == "\\"
NL == "\n"

\* json.decoder.WHITESPACE: ' \t\n\r'
JSON_WS == {" ", "\t", "\n", "\r"}
\* str.strip() and the regex class \s, over the modelled alphabet
WS == {" ", "\t", "\n", "\r", "\f"}
\* characters json's strict scanstring refuses inside a string literal
ControlChars == {"\t", "\n", "\r", "\f"}
Digits == {"0", "1", "2", "3", "4", "5", "6", "7", "8", "9"}

At(s, i) == IF i >= 1 /\ i <= Len(s) THEN s[i] ELSE ""

\* s[i:i+len(lit)] == lit
HasAt(s, i, lit) ==
    /\ i >= 1
    /\ i + Len(lit) - 1 <= Len(s)
    /\ \A k \in 1..Len(lit) : s[i + k - 1] = lit[k]

\* str.find(c): the first index of c, 0 when absent (Python's -1)
find(s, c) ==
    IF \E i \in 1..Len(s) : s[i] = c
    THEN CHOOSE i \in 1..Len(s) : s[i] = c /\ \A j \in 1..(i - 1) : s[j] # c
    ELSE 0

\* str.rfind(c): the last index of c, 0 when absent
rfind(s, c) ==
    IF \E i \in 1..Len(s) : s[i] = c
    THEN CHOOSE i \in 1..Len(s) : s[i] = c /\ \A j \in (i + 1)..Len(s) : s[j] # c
    ELSE 0

\* a in b for two strings: a occurs in b as a contiguous substring
contains(b, a) == \E i \in 1..(Len(b) - Len(a) + 1) : HasAt(b, i, a)

LowerOf == [A |-> "a", B |-> "b", C |-> "c", D |-> "d", E |-> "e", F |-> "f",
            G |-> "g", H |-> "h", I |-> "i", J |-> "j", K |-> "k", L |-> "l",
            M |-> "m", N |-> "n", O |-> "o", P |-> "p", Q |-> "q", R |-> "r",
            S |-> "s",
            T |-> "t", U |-> "u", V |-> "v", W |-> "w", X |-> "x", Y |-> "y",
            Z |-> "z"]

\* str.lower()
lower(s) == [i \in 1..Len(s) |-> IF s[i] \in DOMAIN LowerOf THEN LowerOf[s[i]] ELSE s[i]]

\* set(s)
set(s) == {s[i] : i \in 1..Len(s)}

\* a variant dividing by the shorter length
max_as_min(a, b) == IF a <= b THEN a ELSE b
max(a, b) == IF a >= b THEN a ELSE b

Min(S) == CHOOSE x \in S : \A y \in S : x <= y
Max(S) == CHOOSE x \in S : \A y \in S : x >= y

\* str.strip(): keep is the set of indexes of the characters that are no whitespace
strip_kept(s, keep) == IF keep = {} THEN <<>> ELSE SubSeq(s, Min(keep), Max(keep))
strip(s) == strip_kept(s, {i \in 1..Len(s) : s[i] \notin WS})

\* str.split(c): the pieces between the occurrences of c (i: the first occurrence)
RECURSIVE split(_, _)
split_at(s, c, i) ==
    IF i = 0 THEN <<s>>
    ELSE <<SubSeq(s, 1, i - 1)>> \o split(SubSeq(s, i + 1, Len(s)), c)
split(s, c) == split_at(s, c, find(s, c))

\* ------------------------------------------------------- Python values

\* A JSON / Python value: t is its type, s its text (a string's characters, a
\* number's literal, a nested object's or array's source text).
StrVal(s) == [t |-> "str", s |-> s]

\* dict: pairs [k, v] in insertion order
HasKey(m, k) == \E i \in 1..Len(m) : m[i].k = k
Get(m, k) == m[CHOOSE i \in 1..Len(m) : m[i].k = k].v
Put(m, k, v) ==
    IF HasKey(m, k)
    THEN [i \in 1..Len(m) |-> IF m[i].k = k THEN [k |-> k, v |-> v] ELSE m[i]]
    ELSE Append(m, [k |-> k, v |-> v])
Keys(m) == {m[i].k : i \in 1..Len(m)}

\* ------------------------------------------------------------ json.loads

Fail == [ok |-> FALSE, t |-> "", s |-> <<>>, m |-> <<>>, nxt |-> 0]
Ok(t, s, m, nxt) == [ok |-> TRUE, t |-> t, s |-> s, m |-> m, nxt |-> nxt]

\* the first index from i on whose character is not in cs (a greedy cs* from i)
SkipWhile(s, i, cs) ==
    IF At(s, i) \notin cs THEN i
    ELSE CHOOSE j \in (i + 1)..(Len(s) + 1) :
             /\ At(s, j) \notin cs
             /\ \A k \in i..(j - 1) : s[k] \in cs

SkipWS(s, i) == SkipWhile(s, i, JSON_WS)
SkipDigits(s, i) == SkipWhile(s, i, Digits)

\* json.scanner.NUMBER_RE, (-?(?:0|[1-9]\d*))(\.\d+)?([eE][-+]?\d+)?, part by part: each
\* gives the index after its match, 0 when the integer part does not match
int_end(s, j) ==
    IF At(s, j) = "0" THEN j + 1
    ELSE IF At(s, j) \in Digits THEN SkipDigits(s, j + 1)
    ELSE 0
frac_end(s, e) ==
    IF e # 0 /\ At(s, e) = "." /\ At(s, e + 1) \in Digits THEN SkipDigits(s, e + 2) ELSE e
exp_digits(s, e) == IF At(s, e + 1) \in {"+", "-"} THEN e + 2 ELSE e + 1
exp_end(s, e) ==
    IF e # 0 /\ At(s, e) \in {"e", "E"} /\ At(s, exp_digits(s, e)) \in Digits
    THEN SkipDigits(s, exp_digits(s, e) + 1) ELSE e
match_number(s, i) ==
    exp_end(s, frac_end(s, int_end(s, IF At(s, i) = "-" THEN i + 1 ELSE i)))

Unescape(c) ==
    CASE c = "n" -> "\n" [] c = "t" -> "\t" [] c = "r" -> "\r" [] OTHER -> c

\* json.decoder.py_scanstring (strict), from index i inside the literal: the text up
\* to the next quote, backslash or control character (at j) is taken whole; a quote
\* ends the string, a backslash escapes one character, a control character is an error.
RECURSIVE scanstring(_, _, _)
scan_chunk(s, i, acc, j) ==
    IF j > Len(s) THEN Fail
    ELSE IF s[j] = Q THEN Ok("str", acc \o SubSeq(s, i, j - 1), <<>>, j + 1)
    ELSE IF s[j] \in ControlChars THEN Fail
    ELSE IF At(s, j + 1) \in {Q, BS, "/", "n", "t", "r"}
         THEN scanstring(s, j + 2, Append(acc \o SubSeq(s, i, j - 1), Unescape(s[j + 1])))
         ELSE Fail
scanstring(s, i, acc) ==
    scan_chunk(s, i, acc,
               SkipWhile(s, i, {s[k] : k \in 1..Len(s)} \ ({Q, BS} \cup ControlChars)))

\* the value stored for a member or an element parsed from s[from .. r.nxt-1]
Stored(s, from, r) ==
    [t |-> r.t, s |-> IF r.t = "str" THEN r.s ELSE SubSeq(s, from, r.nxt - 1)]

RECURSIVE scan_once(_, _), JSONObject(_, _, _), JSONArray(_, _, _)

\* json.decoder.JSONObject. A member: its key k, the colon at c, its value v read at
\* from, then "}" or "," at d and the next key's quote at e.
next_key(s, pairs, e) == IF At(s, e) # Q THEN Fail ELSE JSONObject(s, e + 1, pairs)
after_value(s, pairs, d) ==
    IF At(s, d) = "}" THEN Ok("dict", <<>>, pairs, d + 1)
    ELSE IF At(s, d) # "," THEN Fail
    ELSE next_key(s, pairs, SkipWS(s, d + 1))
member_value(s, pairs, key, from, v) ==
    IF ~v.ok THEN Fail
    ELSE after_value(s, Put(pairs, key, Stored(s, from, v)), SkipWS(s, v.nxt))
after_colon(s, pairs, key, from) == member_value(s, pairs, key, from, scan_once(s, from))
after_key(s, pairs, key, c) ==
    IF At(s, c) # ":" THEN Fail ELSE after_colon(s, pairs, key, SkipWS(s, c + 1))
member(s, pairs, k) == IF ~k.ok THEN Fail ELSE after_key(s, pairs, k.s, SkipWS(s, k.nxt))
\* from the index after a key's opening quote
JSONObject(s, i, pairs) == member(s, pairs, scanstring(s, i, <<>>))
\* from the first index after "{" that holds no whitespace
object_open(s, e) ==
    IF At(s, e) = "}" THEN Ok("dict", <<>>, <<>>, e + 1) ELSE next_key(s, <<>>, e)

\* json.decoder.JSONArray. An element v read at i, then "]" or "," at d.
after_element(s, items, d) ==
    IF At(s, d) = "]" THEN Ok("list", <<>>, items, d + 1)
    ELSE IF At(s, d) # "," THEN Fail
    ELSE JSONArray(s, SkipWS(s, d + 1), items)
element(s, i, items, v) ==
    IF ~v.ok THEN Fail
    ELSE after_element(s, Append(items, [k |-> <<>>, v |-> Stored(s, i, v)]), SkipWS(s, v.nxt))
JSONArray(s, i, items) == element(s, i, items, scan_once(s, i))
array_open(s, e) ==
    IF At(s, e) = "]" THEN Ok("list", <<>>, <<>>, e + 1) ELSE JSONArray(s, e, <<>>)

number_to(n) == IF n # 0 THEN Ok("number", <<>>, <<>>, n) ELSE Fail

\* json.scanner.py_make_scanner._scan_once
scan_once(s, i) ==
    CASE At(s, i) = Q -> scanstring(s, i + 1, <<>>)
      [] At(s, i) = "{" -> object_open(s, SkipWS(s, i + 1))
      [] At(s, i) = "[" -> array_open(s, SkipWS(s, i + 1))
      [] HasAt(s, i, <<"n", "u", "l", "l">>) -> Ok("NoneType", <<>>, <<>>, i + 4)
      [] HasAt(s, i, <<"t", "r", "u", "e">>) -> Ok("bool", <<>>, <<>>, i + 4)
      [] HasAt(s, i, <<"f", "a", "l", "s", "e">>) -> Ok("bool", <<>>, <<>>, i + 5)
      [] HasAt(s, i, <<"N", "a", "N">>) -> Ok("number", <<>>, <<>>, i + 3)
      [] HasAt(s, i, <<"I", "n", "f", "i", "n", "i", "t", "y">>) ->
           Ok("number", <<>>, <<>>, i + 8)
      [] HasAt(s, i, <<"-", "I", "n", "f", "i", "n", "i", "t", "y">>) ->
           Ok("number", <<>>, <<>>, i + 9)
      [] OTHER -> number_to(match_number(s, i))

\* json.loads(s) for a str s: the value, or Fail for json.JSONDecodeError (r: the
\* value read after the leading whitespace; only whitespace may follow it)
whole_text(s, r) == IF r.ok /\ SkipWS(s, r.nxt) = Len(s) + 1 THEN r ELSE Fail
loads(s) == whole_text(s, scan_once(s, SkipWS(s, 1)))

\* ------------------------------------------------- extraction stages

\* the backtick, which a TLA+ string cannot hold, under a name of its own
BT == "BT"
FENCE == <<BT, BT, BT>>

\* the regex \s* from index i
SkipS(s, i) == SkipWhile(s, i, WS)

\* a variant of the pattern without the optional json tag
FenceOpen_untagged(s, p) == SkipS(s, p + 3)

\* The fenced-block pattern of re.search (three backticks, an optional json tag,
\* whitespace, a lazy brace group, whitespace, three backticks) anchored at p:
\* the index at which the group's opening brace must stand.
FenceOpen(s, p) ==
    SkipS(s, IF HasAt(s, p + 3, <<"j", "s", "o", "n">>) THEN p + 7 ELSE p + 3)

\* the ends e of a group s[q..e] that the regex accepts: "}" then \s* then the fence
FenceEnds(s, q) ==
    {e \in (q + 1)..Len(s) : s[e] = "}" /\ HasAt(s, SkipS(s, e + 1), FENCE)}

\* a group can start at q: an opening brace that some accepted end follows
fence_at(s, q) == At(s, q) = "{" /\ FenceEnds(s, q) # {}

FenceStarts(s) == {p \in 1..Len(s) : HasAt(s, p, FENCE) /\ fence_at(s, FenceOpen(s, p))}

\* re.search(...): found, and group(1) (leftmost match, lazy body)
group_from(s, q) == [found |-> TRUE, group |-> SubSeq(s, q, Min(FenceEnds(s, q)))]
leftmost(s, starts) ==
    IF starts = {} THEN [found |-> FALSE, group |-> <<>>]
    ELSE group_from(s, FenceOpen(s, Min(starts)))
re_search(s) == leftmost(s, FenceStarts(s))

\* start_idx != -1 and end_idx != -1 and end_idx > start_idx
has_braces(s) == find(s, "{") # 0 /\ rfind(s, "}") # 0 /\ rfind(s, "}") > find(s, "{")

\* coding_result[start_idx:end_idx+1]
brace_text(s) == SubSeq(s, find(s, "{"), rfind(s, "}"))

\* a variant that splits a line at its last "="
parse_line_last_eq(line, eq, coding_results) ==
    IF eq = 0 THEN coding_results
    ELSE Put(coding_results, strip(SubSeq(line, 1, rfind(line, "=") - 1)),
             StrVal(strip(SubSeq(line, rfind(line, "=") + 1, Len(line)))))

\* if '=' in line: key, value = line.split('=', 1); d[key.strip()] = value.strip()
\* (eq: the index of the first "=" of the line, 0 when it has none)
parse_line(line, eq, coding_results) ==
    IF eq = 0 THEN coding_results
    ELSE Put(coding_results, strip(SubSeq(line, 1, eq - 1)),
             StrVal(strip(SubSeq(line, eq + 1, Len(line)))))

RECURSIVE parse_lines(_, _, _)
\* for line in lines: ...
parse_lines(lines, i, coding_results) ==
    IF i > Len(lines) THEN coding_results
    ELSE parse_lines(lines, i + 1,
                     parse_line(lines[i], find(lines[i], "="), coding_results))

\* the line-oriented recovery over coding_result.strip().split('\n')
line_parse(s) == parse_lines(split(strip(s), NL), 1, <<>>)

\* ------------------------------------------------------ the variables

Categorical == "select"

RECURSIVE strip_nonempty(_, _)
\* [opt.strip() for opt in parts if opt.strip()]
strip_nonempty(parts, i) ==
    IF i > Len(parts) THEN <<>>
    ELSE (IF strip(parts[i]) = <<>> THEN <<>> ELSE <<strip(parts[i])>>)
         \o strip_nonempty(parts, i + 1)

\* var_name in options_map: a categorical variable whose options are a string
in_options_map(var) == var.type = Categorical

\* options_map[var_name]: the comma-separated options, stripped, empty ones dropped
options_map(var) == strip_nonempty(split(var.options, ","), 1)

\* ---------------------------------------------------------- validation

NoMatch == [found |-> FALSE, match |-> <<>>, num |-> 0, den |-> 1]

\* option.lower() in value.lower() or value.lower() in option.lower()
similar(option, value) ==
    \/ contains(lower(value), lower(option))
    \/ contains(lower(option), lower(value))

\* len(set(option.lower()) & set(value.lower()))
common(option, value) == Cardinality(set(lower(option)) \cap set(lower(value)))

\* a variant in which an equal score also replaces the best match
better_or_equal(option, num, den, best) ==
    IF num * best.den >= best.num * den
    THEN [found |-> TRUE, match |-> option, num |-> num, den |-> den]
    ELSE best

\* if score > best_score: best_score = score; best_match = option
\* (the score is num/den, compared exactly)
better(option, num, den, best) ==
    IF num * best.den > best.num * den
    THEN [found |-> TRUE, match |-> option, num |-> num, den |-> den]
    ELSE best

\* one pass of "for option in valid_options"
fuzzy_step(option, value, best) ==
    IF similar(option, value)
    THEN better(option, common(option, value), max(Len(option), Len(value)), best)
    ELSE best

RECURSIVE fuzzy(_, _, _, _)
fuzzy(valid_options, i, value, best) ==
    IF i > Len(valid_options) THEN best
    ELSE fuzzy(valid_options, i + 1, value, fuzzy_step(valid_options[i], value, best))

\* a variant that accepts any eligible best match, whatever its score
threshold_any_score(best, valid_options) ==
    IF best.found THEN best.match
    ELSE IF Len(valid_options) > 0 THEN valid_options[1] ELSE <<>>
\* if best_match and best_score > 0.5: best_match, else valid_options[0] (or "")
threshold(best, valid_options) ==
    IF best.found /\ 2 * best.num > best.den THEN best.match
    ELSE IF Len(valid_options) > 0 THEN valid_options[1] ELSE <<>>

\* The value stored for a categorical variable: set is FALSE when nothing is stored,
\* err is TRUE for the AttributeError of value.lower() on a value that is no str.
\* in_loop: the threshold test sits inside the loop over the options (stage 2).
resolve(value, valid_options, in_loop) ==
    IF value.t = "str" /\ \E i \in 1..Len(valid_options) : valid_options[i] = value.s
    THEN [err |-> FALSE, set |-> TRUE, v |-> value]
    ELSE IF Len(valid_options) = 0
         THEN [err |-> FALSE, set |-> ~in_loop, v |-> StrVal(<<>>)]
    ELSE IF value.t # "str"
         THEN [err |-> TRUE, set |-> FALSE, v |-> value]
    ELSE [err |-> FALSE, set |-> TRUE,
          v |-> StrVal(threshold(fuzzy(valid_options, 1, value.s, NoMatch), valid_options))]

\* "var_name in coding_json" by the type json.loads returned: "yes", "no", or "TypeError"
\* (a number, a bool or None is not iterable)
name_in(coding_json, var_name) ==
    CASE coding_json.t = "dict" -> IF HasKey(coding_json.m, var_name) THEN "yes" ELSE "no"
      [] coding_json.t = "list" ->
           IF \E i \in 1..Len(coding_json.m) :
                  coding_json.m[i].v = StrVal(var_name) THEN "yes" ELSE "no"
      [] coding_json.t = "str" -> IF contains(coding_json.s, var_name) THEN "yes" ELSE "no"
      [] OTHER -> "TypeError"

\* the entry of one variable: resolved against its options when it has any
resolved(var, value, in_loop) ==
    IF in_options_map(var) THEN resolve(value, options_map(var), in_loop)
    ELSE [err |-> FALSE, set |-> TRUE, v |-> value]

RECURSIVE validate(_, _, _, _, _)

\* "if var_name in coding_json" is false, and a variant that stores a default instead
absent_defaulted(variables, i, coding_json, valid_coding, in_loop) ==
    validate(variables, i + 1, coding_json,
             Put(valid_coding, variables[i].name, StrVal(<<>>)), in_loop)
\* "if var_name in coding_json" is false: nothing is stored for the variable
absent(variables, i, coding_json, valid_coding, in_loop) ==
    validate(variables, i + 1, coding_json, valid_coding, in_loop)

\* valid_coding[var_name] = ... for the resolved entry r
store(variables, i, coding_json, valid_coding, in_loop, r) ==
    IF r.err THEN [err |-> TRUE, m |-> valid_coding]
    ELSE validate(variables, i + 1, coding_json,
                  IF r.set THEN Put(valid_coding, variables[i].name, r.v)
                  ELSE valid_coding,
                  in_loop)

\* the body of the loop for variables[i]; has is "var_name in coding_json"
validate_var(variables, i, coding_json, valid_coding, in_loop, has) ==
    IF has = "TypeError" THEN [err |-> TRUE, m |-> valid_coding]
    ELSE IF has = "no" THEN absent(variables, i, coding_json, valid_coding, in_loop)
    \* coding_json[var_name] on a list or a str: TypeError
    ELSE IF coding_json.t # "dict" THEN [err |-> TRUE, m |-> valid_coding]
    ELSE store(variables, i, coding_json, valid_coding, in_loop,
               resolved(variables[i], Get(coding_json.m, variables[i].name), in_loop))

\* "for var in variables: ..." building valid_coding; err for an exception raised
validate(variables, i, coding_json, valid_coding, in_loop) ==
    IF i > Len(variables) THEN [err |-> FALSE, m |-> valid_coding]
    ELSE validate_var(variables, i, coding_json, valid_coding, in_loop,
                      name_in(coding_json, variables[i].name))

\* ------------------------------------- auto_code_content: the stages

NoCandidate == [t |-> "", s |-> <<>>, m |-> <<>>]
Recovered(j) == [t |-> j.t, s |-> j.s, m |-> j.m]
Lines(coding_results) == Ok("dict", <<>>, coding_results, 0)

\* What a stage does: "return" valid_coding m, go on to the next stage, raise into
\* the inner handler ("except") or raise into the function's outer handler ("outer").
Step(to, cand, m) == [to |-> to, cand |-> cand, m |-> m]

\* return valid_coding, or the exception the validation raised (to on_error)
validated(coding_json, v, on_error) ==
    Step(IF v.err THEN on_error ELSE "return", Recovered(coding_json), v.m)

\* the parsed text coding_json: a parse failure goes to on_decode_error, a parsed
\* value is validated
use_json(coding_json, variables, in_loop, on_decode_error, on_error) ==
    IF ~coding_json.ok THEN Step(on_decode_error, NoCandidate, <<>>)
    ELSE validated(coding_json, validate(variables, 1, coding_json, <<>>, in_loop),
                   on_error)

\* json.loads(coding_result) and the validation of its result
stage1(coding_result, variables) ==
    IF coding_result.t # "str" THEN Step("outer", NoCandidate, <<>>)
    ELSE use_json(loads(coding_result.s), variables, FALSE, "stage2", "outer")

\* the fenced block
fenced(json_match, variables) ==
    IF ~json_match.found THEN Step("stage3", NoCandidate, <<>>)
    ELSE use_json(loads(json_match.group), variables, TRUE, "except", "except")
stage2(coding_result, variables) == fenced(re_search(coding_result.s), variables)

\* the first "{" to the last "}"
stage3(coding_result, variables) ==
    IF ~has_braces(coding_result.s) THEN Step("stage4", NoCandidate, <<>>)
    ELSE use_json(loads(brace_text(coding_result.s)), variables, FALSE, "except", "except")

\* the lines holding "=", validated
stage4(coding_result, variables) ==
    use_json(Lines(line_parse(coding_result.s)), variables, FALSE, "except", "except")

\* "except Exception" of the inner try: the lines holding "=", returned as they are
returned_lines(coding_results) ==
    Step("return", Recovered(Lines(coding_results)), coding_results)
inner_except(coding_result) == returned_lines(line_parse(coding_result.s))

\* the text-model steps of auto_code_video (json.loads, fenced block, braces; any
\* failure ends the call with None) and the one validation that follows them
video_fenced(s, json_match) ==
    IF json_match.found THEN loads(json_match.group)
    ELSE IF has_braces(s) THEN loads(brace_text(s))
    ELSE Fail
video_whole(s, whole) == IF whole.ok THEN whole ELSE video_fenced(s, re_search(s))
video_extract(coding_result) ==
    IF coding_result.t # "str" THEN Fail
    ELSE video_whole(coding_result.s, loads(coding_result.s))

video_parse(coding_result, variables) ==
    use_json(video_extract(coding_result), variables, FALSE, "outer", "outer")

\* --------------------------------------------------- program constants

\* @retry_with_backoff(max_retries=2, initial_backoff=5, backoff_factor=2)
CODE_MAX_RETRIES == 2
CODE_INITIAL_BACKOFF == 5
CODE_BACKOFF_FACTOR == 2
\* CompletionsObject.create: max_retries = 3, retry_delay = 1
HTTP_MAX_RETRIES == 3
HTTP_RETRY_DELAY == 1
\* auto_code_video: min(len(frames_with_timestamps), 4)
MAX_FRAMES == 4

\* ------------------------------------------------------------- inputs

\* the largest max_retries the generic operation is wrapped with
MaxRetries == 4
\* the most requests one invocation of a coding function sleeps on
MaxHttpSleeps == 3
InitialBackoffs == {1, 2, 5}
BackoffFactors == {1, 2, 3}

\* st.session_state['siliconflow_api_key']: unset, blank, set
ApiKeys == {<<>>, <<" ">>, <<"s", "k">>}

VarA == [name |-> <<"a">>, type |-> Categorical, options |-> <<"y", "e", "s", ",", "n", "o">>]
VarB == [name |-> <<"b">>, type |-> "text", options |-> <<>>]
\* a categorical variable whose options text is empty
VarE == [name |-> <<"a">>, type |-> Categorical, options |-> <<>>]
\* a categorical variable two of whose options are equally close to the value "abca"
VarT == [name |-> <<"a">>, type |-> Categorical,
         options |-> <<"a", "b", ",", "a", "b", "c", ",", "b", "c", "a">>]
VarU == [name |-> <<"a">>, type |-> Categorical,
         options |-> <<"b", "c", "a", ",", "a", "b", "c", ",", "a", "b">>]
\* the variables of the documented examples: sentiment and topic
Positive == <<"p", "o", "s", "i", "t", "i", "v", "e">>
VarSentiment ==
    [name |-> <<"s", "e", "n", "t", "i", "m", "e", "n", "t">>,
     type |-> Categorical,
     options |-> Positive \o <<",">>
                 \o <<"n", "e", "u", "t", "r", "a", "l">> \o <<",">>
                 \o <<"n", "e", "g", "a", "t", "i", "v", "e">>]
VarTopic == [name |-> <<"t", "o", "p", "i", "c">>, type |-> "text", options |-> <<>>]
VariableLists ==
    { <<>>, <<VarA>>, <<VarA, VarB>>, <<VarB, VarA>>, <<VarE, VarB>>, <<VarT>>, <<VarU>>,
      <<VarSentiment>>, <<VarTopic>> }

\* the variable lists the calls with more than one frame are run on
VideoVariableLists == {<<VarA, VarB>>}

\* JSON text of a string literal, of a one-member and of a two-member object
JStr(cs) == <<Q>> \o cs \o <<Q>>
JObj1(k, v) == <<"{">> \o JStr(k) \o <<":", " ">> \o v \o <<"}">>
JObj2(k1, v1, k2, v2) ==
    <<"{">> \o JStr(k1) \o <<":", " ">> \o v1 \o <<",", " ">>
            \o JStr(k2) \o <<":", " ">> \o v2 \o <<"}">>

\* values a reply gives a variable: an option, an option in another case, an option
\* inside a longer answer, a part of an option, a value matching no option, and
\* values that are no string
ValueTexts ==
    { JStr(<<"y", "e", "s">>), JStr(<<"N", "O">>), JStr(<<"n", "o", "!">>), JStr(<<"n">>),
      JStr(<<"m", "a", "y", "b", "e">>), JStr(<<"a", "b", "c", "a">>), <<"1">>,
      <<"n", "u", "l", "l">>, <<"t", "r", "u", "e">>, <<"[", "1", "]">> }

ObjectTexts ==
    {JObj1(<<"a">>, v) : v \in ValueTexts}
    \cup {JObj2(<<"a">>, v, <<"b">>, JStr(<<"t">>)) : v \in ValueTexts}
    \cup { JObj1(<<"b">>, <<"7">>), JObj1(<<"c">>, JStr(<<"x">>)), <<"{", "}">> }

\* JSON that is no object
ScalarTexts ==
    { JStr(<<"y", "e", "s">>), JStr(<<"x", "a", "y">>), <<"4", "2">>,
      <<"t", "r", "u", "e">>, <<"n", "u", "l", "l">>,
      <<"[">> \o JStr(<<"a">>) \o <<"]">>, <<"[", "1", "]">> }

\* text that is no JSON: a malformed object, prose, key=value lines
OtherTexts ==
    { <<"{", "o", "o", "p", "s", "}">>, <<"o", "k">>, <<>>,
      <<"a", "=", "y", "e", "s">>, <<"a", " ", "=", " ", "h", "m">>,
      <<"a", "=", "n", "o", NL, "b", "=", "x", "=", "y">> }

Bodies == ObjectTexts \cup ScalarTexts \cup OtherTexts

TrailingLine == <<NL, "b", "=", "z">>
\* a line giving the categorical variable a value that is none of its options
OffListLine == <<NL, "a", "=", "h", "m">>
Fenced(x) == FENCE \o <<"j", "s", "o", "n", NL>> \o x \o <<NL>> \o FENCE
FencedPlain(x) == FENCE \o <<NL>> \o x \o <<NL>> \o FENCE \o <<NL, "T", "h", "x">>
InProse(x) == <<"H", "i", ":", " ">> \o x \o <<" ", "o", "k">>
\* a JSON object in prose, one of whose strings holds a fenced block
Quoted(x) == <<"R", ":", " ", "{">> \o JStr(<<"b">>) \o <<":", " ">>
             \o JStr(FENCE \o x \o FENCE) \o <<"}">>

\* the replies of the documented examples
PositiveStrongly ==
    <<"P", "o", "s", "i", "t", "i", "v", "e", " ", "(", "s", "t", "r", "o", "n",
    "g", "l", "y", ")">>
SentimentReply == JObj1(VarSentiment.name, JStr(PositiveStrongly))
TopicReply ==
    <<"H", "e", "r", "e", " ", "i", "s", " ", "t", "h", "e", " ", "r", "e", "s",
    "u", "l", "t", ":", NL>>
    \o FENCE \o <<"j", "s", "o", "n", NL>>
    \o <<"{", Q, "t", "o", "p", "i", "c", Q, ":", Q, "t", "e", "c", "h", Q, "}">>
    \o <<NL>> \o FENCE \o <<NL, "T", "h", "a", "n", "k", "s">>

Replies ==
    {SentimentReply, TopicReply}
    \cup Bodies
    \cup {InProse(x) : x \in Bodies}
    \cup {Fenced(x) : x \in Bodies}
    \cup {FencedPlain(x) : x \in Bodies}
    \cup {x \o TrailingLine : x \in Bodies}
    \cup {Fenced(x) \o TrailingLine : x \in Bodies}
    \cup {Quoted(x) : x \in {<<"{", "x", "}">>, <<"{", "}">>}}
    \cup {x \o OffListLine : x \in { <<"{", "o", "o", "p", "s", "}">>, <<"o", "k">>,
                                     Fenced(JObj1(<<"a">>, <<"1">>)) }}

\* the replies auto_code_video is run on: one body of each kind in each wrapping
VideoBodies ==
    { JObj1(<<"a">>, JStr(<<"N", "O">>)), JObj1(<<"a">>, <<"1">>),
      JObj2(<<"a">>, JStr(<<"m", "a", "y", "b", "e">>), <<"b">>, JStr(<<"t">>)),
      JStr(<<"y", "e", "s">>), <<"4", "2">>, <<"{", "o", "o", "p", "s", "}">>,
      <<"o", "k">>, <<"a", "=", "y", "e", "s">> }
VideoReplies ==
    VideoBodies
    \cup {InProse(x) : x \in VideoBodies}
    \cup {Fenced(x) : x \in VideoBodies}
    \cup {x \o TrailingLine : x \in VideoBodies}

\* str(response) of a response object without choices: a text with no JSON in it
ResponseRepr == <<"<", "R", "e", "s", "p", "o", "n", "s", "e", " ", "o", "b", "j", "e", "c", "t", ">">>

\* what _create_response_object built: no choices, a choice whose message is None,
\* a message whose content is null, a message whose content is the reply
Responses(replies) ==
    { [shape |-> "no_choices", content |-> <<>>],
      [shape |-> "no_message", content |-> <<>>],
      [shape |-> "null_content", content |-> <<>>] }
    \cup {[shape |-> "content", content |-> r] : r \in replies}
NoResponse == [shape |-> "", content |-> <<>>]

\* frames_with_timestamps: the timestamps (seconds) of the frames the caller passes
FrameLists == {<<>>, <<10>>, <<30, 10>>, <<40, 0, 10, 20, 30>>}

\* codings for the reliability page: a coder's values of the variable v for the
\* content items 1, 2, ... in turn
MaxItems == 3
Categories == {"A", "B"}
Codings == UNION {[1..n -> Categories] : n \in 1..MaxItems}
Codes(coder_id, c) ==
    [i \in 1..Len(c) |->
        [content_id |-> i, coder_id |-> coder_id, row |-> <<[k |-> "v", v |-> c[i]]>>]]

\* observations and category mappings for calls of the two statistics: the
\* variables v and w, each carried or not, with the values A and B
MaxObservations == 5
Observations ==
    {<<[k |-> "v", v |-> "A"]>>, <<[k |-> "v", v |-> "B"]>>, <<[k |-> "w", v |-> "A"]>>,
     <<[k |-> "v", v |-> "A"], [k |-> "w", v |-> "B"]>>,
     <<[k |-> "v", v |-> "B"], [k |-> "w", v |-> "B"]>>}
ObservationLists == UNION {[1..n -> Observations] : n \in 0..MaxObservations}
CategoryMaps ==
    {<<>>,
     <<[k |-> "v", v |-> Categories]>>,
     <<[k |-> "v", v |-> Categories], [k |-> "w", v |-> Categories]>>,
     <<[k |-> "v", v |-> {}], [k |-> "w", v |-> Categories]>>}

\* -------------------------------------------------------------- state

VARIABLES
    func,               \* the decorated function the caller invokes
    max_retries, initial_backoff, backoff_factor,   \* its decorator's arguments
    api_key,            \* the configured credential
    variables,          \* the Variable list passed in
    frames,             \* frames_with_timestamps (timestamps only)
    pc,                 \* where the call stands
    retries,            \* wrapper: failed attempts so far
    trace,              \* calls, requests and sleeps, in the order they happen
    http_retry, retry_delay,    \* create: the request loop's retry and delay
    response,           \* the response object create returned
    frame_i, frame_descriptions,    \* auto_code_video: the frame loop
    coding_result,      \* the reply read from the response
    candidate,          \* the latest value recovered from the reply
    stage,              \* the stage that produced the returned mapping (5: inner except)
    fault,              \* the handler that caught an exception in this invocation
    ret,                \* how the wrapped function ended
    outcome,            \* what the caller of the wrapper gets
    data_records, selected_vars,    \* reliability page: the imported codings, the chosen variables
    observations,       \* reliability page: one mapping per content item and coder
    categories,         \* reliability page: the values observed for each variable
    agreement, alpha    \* reliability page: the statistics shown

vars == <<func, max_retries, initial_backoff, backoff_factor, api_key, variables, frames,
          pc, retries, trace, http_retry, retry_delay, response, frame_i,
          frame_descriptions, coding_result, candidate, stage, fault, ret, outcome,
          data_records, selected_vars, observations, categories, agreement, alpha>>

inputs == <<func, max_retries, initial_backoff, backoff_factor, api_key, variables, frames>>
request_vars == <<http_retry, retry_delay, response>>
frame_vars == <<frame_i, frame_descriptions>>
parse_vars == <<coding_result, candidate, stage>>
reliability_vars == <<data_records, selected_vars, observations, categories, agreement, alpha>>

Ev(e, d) == [e |-> e, d |-> d]
None == [kind |-> "None", m |-> <<>>, id |-> 0]
Dict(m) == [kind |-> "dict", m |-> m, id |-> 0]
Raise(id) == [kind |-> "raise", m |-> <<>>, id |-> id]
Value(id) == [kind |-> "value", m |-> <<>>, id |-> id]
Pending == [kind |-> "", m |-> <<>>, id |-> 0]
NoneType == [t |-> "NoneType", s |-> <<>>]

\* ------------------------------------------------- retry_with_backoff

\* while retries < max_retries
keep_trying_off_by_one(r, m) == r <= m
keep_trying(r, m) == r < m

\* sleep_time = backoff * (backoff_factor ** (retries - 1)), backoff = initial_backoff
sleep_time_next_power(backoff, factor, r) == backoff * (factor ^ r)
sleep_time(backoff, factor, r) == backoff * (factor ^ (r - 1))

\* if retries < max_retries: time.sleep(sleep_time)
sleeps_after(r, m) == r < m

\* One pass of the while loop: func is invoked, or the loop is over and
\* last_exception is raised.
wrapper_loop ==
    /\ pc = "wrapper"
    /\ IF keep_trying(retries, max_retries)
       THEN /\ pc' = IF func = "op" THEN "op" ELSE "enter"
            /\ trace' = Append(trace, Ev("call", 0))
            /\ ret' = Pending
            /\ fault' = ""
            /\ UNCHANGED outcome
       ELSE /\ pc' = "done"
            /\ outcome' = ret
            /\ UNCHANGED <<trace, ret, fault>>
    /\ UNCHANGED <<inputs, reliability_vars, retries, request_vars, frame_vars, parse_vars>>

\* func has ended: its value is returned, or its exception is counted and, unless it
\* was the last attempt, slept on.
wrapper_result ==
    /\ pc = "returned"
    /\ IF ret.kind = "raise"
       THEN /\ retries' = retries + 1
            /\ trace' = IF sleeps_after(retries + 1, max_retries)
                        THEN Append(trace, Ev("sleep",
                                 sleep_time(initial_backoff, backoff_factor, retries + 1)))
                        ELSE trace
            /\ pc' = "wrapper"
            /\ UNCHANGED outcome
       ELSE /\ pc' = "done"
            /\ outcome' = ret
            /\ UNCHANGED <<retries, trace>>
    /\ UNCHANGED <<inputs, reliability_vars, request_vars, frame_vars, parse_vars, fault, ret>>

\* a wrapped operation that fails or succeeds, as its environment decides
op ==
    /\ pc = "op"
    /\ \E fails \in BOOLEAN :
          ret' = IF fails THEN Raise(retries + 1) ELSE Value(retries + 1)
    /\ pc' = "returned"
    /\ UNCHANGED <<inputs, reliability_vars, retries, trace, request_vars, frame_vars, parse_vars, fault,
                   outcome>>

\* ------------------------------- auto_code_content, auto_code_video

\* a variant that only refuses a key that is not set
no_client_unset_only(key) == key = <<>>
\* get_siliconflow_client() returns None: "not api_key" or api_key.strip() == ''
no_client(key) == key = <<>> \/ strip(key) = <<>>

\* "except Exception as e: ... return None" around the whole function body
outer_except_reraise == Raise(1)
outer_except == None

\* frames_with_timestamps[:max_frames]
selected_frames(fs) == SubSeq(fs, 1, IF Len(fs) < MAX_FRAMES THEN Len(fs) ELSE MAX_FRAMES)

\* client = get_siliconflow_client(); if not client: return None
get_client ==
    /\ pc = "enter"
    /\ IF no_client(api_key)
       THEN /\ ret' = None
            /\ pc' = "returned"
       ELSE /\ ret' = ret
            /\ pc' = IF func = "auto_code_video" THEN "select" ELSE "request"
    /\ http_retry' = 0
    /\ retry_delay' = HTTP_RETRY_DELAY
    /\ response' = NoResponse
    /\ frame_i' = 0
    /\ frame_descriptions' = <<>>
    /\ coding_result' = NoneType
    /\ candidate' = NoCandidate
    /\ stage' = 0
    /\ UNCHANGED <<inputs, reliability_vars, retries, trace, fault, outcome>>

\* auto_code_video: "if not frames_with_timestamps: return None", else the frames
\* to describe are chosen
select_frames ==
    /\ pc = "select"
    /\ IF frames = <<>>
       THEN /\ ret' = None
            /\ pc' = "returned"
       ELSE /\ ret' = ret
            /\ pc' = "frames"
    /\ UNCHANGED <<inputs, reliability_vars, retries, trace, request_vars, frame_vars, parse_vars, fault,
                   outcome>>

\* the call in flight is a vision call of the frame loop, not the text call
vision_call == func = "auto_code_video" /\ frame_i < Len(selected_frames(frames))

\* frame_descriptions after the pass for the frame at timestamp ended as r (the shape
\* of the response, or "raise" when create raised), and a variant that keeps a
\* description for a failed call too
described_always(descriptions, timestamp, r) == Append(descriptions, timestamp)
described(descriptions, timestamp, r) ==
    IF r \in {"content", "null_content"} THEN Append(descriptions, timestamp)
    ELSE descriptions

\* "except Exception as e: logging.error(...)" of a pass: reached when create raised
\* and when message.content is read off a choice whose message is None
frame_events(timestamp, r) ==
    IF r \in {"raise", "no_message"} THEN <<Ev("vision_failed", timestamp)>> ELSE <<>>

\* A pass of "for i, (frame, timestamp) in enumerate(selected_frames)" begins: the frame
\* is encoded (convert_image_to_base64 gives "" rather than raise) and create is called
\* for the vision model, with a request loop of its own.
describe_frame ==
    /\ pc = "frames"
    /\ frame_i < Len(selected_frames(frames))
    /\ trace' = Append(trace, Ev("vision", selected_frames(frames)[frame_i + 1]))
    /\ http_retry' = 0
    /\ retry_delay' = HTTP_RETRY_DELAY
    /\ pc' = "request"
    /\ UNCHANGED <<inputs, reliability_vars, retries, response, frame_vars, parse_vars, ret, fault,
                   outcome>>

\* combined_description = "\n\n".join(frame_descriptions), the prompt is built and
\* create is called for the text model
join_descriptions ==
    /\ pc = "frames"
    /\ frame_i = Len(selected_frames(frames))
    /\ http_retry' = 0
    /\ retry_delay' = HTTP_RETRY_DELAY
    /\ pc' = "request"
    /\ UNCHANGED <<inputs, reliability_vars, retries, trace, response, frame_vars, parse_vars, fault,
                   ret, outcome>>

\* the request sent: 0 for the text call, the number of the frame for a vision call
request_of == IF vision_call THEN frame_i + 1 ELSE 0

\* how a request fails: an exception that is not an HTTPError, an HTTPError whose body
\* decodes as UTF-8, an HTTPError whose body does not
Failures == {"URLError", "HTTPError", "HTTPError:undecodable"}

\* the replies a request can get
Answers ==
    IF vision_call THEN Responses({<<>>})
    ELSE Responses(IF func = "auto_code_video" THEN VideoReplies ELSE Replies)

\* the except clauses of the request loop sleep and try again: both test
\* "retry < max_retries - 1", the HTTPError clause after
\* e.read().decode('utf-8'), which raises on a body that is not UTF-8
sleeps_on(e, retry) == e # "HTTPError:undecodable" /\ retry < HTTP_MAX_RETRIES - 1

\* requests slept on so far in this invocation of the wrapper
slept == Len(SelectSeq(trace, LAMBDA x : x.e = "http_sleep"))

\* CompletionsObject.create: "with urllib.request.urlopen(req, context=context)" in a
\* pass of "for retry in range(max_retries)". The request is answered, or it fails and
\* its except clause chooses between the sleep and the raise.
urlopen ==
    /\ pc = "request"
    /\ trace' = Append(trace, Ev("urlopen", request_of))
    /\ \/ /\ \E r \in Answers : response' = r
          /\ pc' = "response"
       \/ /\ \E e \in Failures :
                /\ sleeps_on(e, http_retry) => slept < MaxHttpSleeps
                /\ pc' = IF sleeps_on(e, http_retry) THEN "sleep" ELSE "raise"
          /\ UNCHANGED response
    /\ UNCHANGED <<inputs, reliability_vars, retries, http_retry, retry_delay, frame_vars, parse_vars,
                   ret, fault, outcome>>

\* "time.sleep(retry_delay); retry_delay *= 2", and the next pass of the request loop
sleep_and_retry ==
    /\ pc = "sleep"
    /\ trace' = Append(trace, Ev("http_sleep", retry_delay))
    /\ retry_delay' = retry_delay * 2
    /\ http_retry' = http_retry + 1
    /\ pc' = "request"
    /\ UNCHANGED <<inputs, reliability_vars, retries, response, frame_vars, parse_vars, ret, fault,
                   outcome>>

\* create raises: into "except Exception" of the pass of the frame loop, which logs the
\* failure and goes on to the next frame, or into the outer handler of the calling
\* function.
create_raised ==
    /\ pc = "raise"
    /\ IF vision_call
       THEN /\ trace' = trace \o frame_events(selected_frames(frames)[frame_i + 1], "raise")
            /\ frame_descriptions' =
                   described(frame_descriptions, selected_frames(frames)[frame_i + 1], "raise")
            /\ frame_i' = frame_i + 1
            /\ pc' = "frames"
            /\ UNCHANGED <<ret, fault>>
       ELSE /\ ret' = outer_except
            /\ fault' = "outer"
            /\ pc' = "returned"
            /\ UNCHANGED <<trace, frame_vars>>
    /\ UNCHANGED <<inputs, reliability_vars, retries, request_vars, parse_vars, outcome>>

\* the pass of the frame loop after create returned: a description is kept when the
\* response has a choice, reading the content of a missing message raises into the
\* handler of the pass, and the loop goes on
read_description ==
    /\ pc = "response"
    /\ vision_call
    /\ trace' = trace \o frame_events(selected_frames(frames)[frame_i + 1], response.shape)
    /\ frame_descriptions' =
           described(frame_descriptions, selected_frames(frames)[frame_i + 1], response.shape)
    /\ frame_i' = frame_i + 1
    /\ pc' = "frames"
    /\ UNCHANGED <<inputs, reliability_vars, retries, request_vars, parse_vars, ret, fault, outcome>>

\* auto_code_content: coding_result is read off the response, whatever its shape.
\* auto_code_video: a response without choices ends the call with None, and
\* message.content of a missing message raises into the handler of the text step.
read_response ==
    /\ pc = "response"
    /\ ~vision_call
    /\ IF func = "auto_code_video" /\ response.shape \in {"no_choices", "no_message"}
       THEN /\ ret' = IF response.shape = "no_message" THEN outer_except ELSE None
            /\ fault' = IF response.shape = "no_message" THEN "outer" ELSE fault
            /\ pc' = "returned"
            /\ UNCHANGED coding_result
       ELSE /\ coding_result' =
                 CASE response.shape = "content" -> StrVal(response.content)
                   [] response.shape = "no_choices" -> StrVal(ResponseRepr)
                   [] OTHER -> NoneType
            /\ pc' = IF func = "auto_code_video" THEN "vparse" ELSE "stage1"
            /\ UNCHANGED <<ret, fault>>
    /\ UNCHANGED <<inputs, reliability_vars, retries, trace, request_vars, frame_vars, candidate, stage,
                   outcome>>

\* what a stage's step does to the state
Apply(st, n) ==
    /\ candidate' = IF st.cand.t # "" THEN st.cand ELSE candidate
    /\ CASE st.to = "return" ->
              /\ ret' = Dict(st.m)
              /\ stage' = n
              /\ pc' = "returned"
              /\ UNCHANGED fault
         [] st.to = "outer" ->
              /\ ret' = outer_except
              /\ fault' = "outer"
              /\ pc' = "returned"
              /\ UNCHANGED stage
         [] st.to = "except" ->
              /\ fault' = "inner"
              /\ pc' = "except"
              /\ UNCHANGED <<ret, stage>>
         [] OTHER ->
              /\ pc' = st.to
              /\ UNCHANGED <<ret, stage, fault>>
    /\ UNCHANGED <<inputs, reliability_vars, retries, trace, request_vars, frame_vars, coding_result, outcome>>

try_stage1 == pc = "stage1" /\ Apply(stage1(coding_result, variables), 1)
try_stage2 == pc = "stage2" /\ Apply(stage2(coding_result, variables), 2)
try_stage3 == pc = "stage3" /\ Apply(stage3(coding_result, variables), 3)
try_stage4 == pc = "stage4" /\ Apply(stage4(coding_result, variables), 4)
handle_except == pc = "except" /\ Apply(inner_except(coding_result), 5)
video_result == pc = "vparse" /\ Apply(video_parse(coding_result, variables), 1)

\* ------------------------------------------ the reliability page's button

\* df[column].unique(): the values in order of first appearance
RECURSIVE unique(_)
unique(s) ==
    IF s = <<>> THEN <<>>
    ELSE IF \E i \in 1..(Len(s) - 1) : s[i] = s[Len(s)]
         THEN unique(SubSeq(s, 1, Len(s) - 1))
         ELSE Append(unique(SubSeq(s, 1, Len(s) - 1)), s[Len(s)])

content_ids(records) == unique([i \in 1..Len(records) |-> records[i].content_id])
\* df[df['content_id'] == content_id]
content_df(records, content_id) == SelectSeq(records, LAMBDA r : r.content_id = content_id)
coders(df) == unique([i \in 1..Len(df) |-> df[i].coder_id])
coder_df(df, coder_id) == SelectSeq(df, LAMBDA r : r.coder_id = coder_id)

\* obs[var] = coder_df[var].iloc[0], for var in selected_vars
obs(df, selected) ==
    [i \in 1..Len(selected) |-> [k |-> selected[i], v |-> Get(df[1].row, selected[i])]]

\* the coders' mappings of one content item; an item with one coder is skipped
coder_observations_any(df, ids, selected) ==
    IF selected = <<>> THEN <<>>
    ELSE [i \in 1..Len(ids) |-> obs(coder_df(df, ids[i]), selected)]
coder_observations(df, ids, selected) ==
    IF Len(ids) < 2 \/ selected = <<>> THEN <<>>
    ELSE [i \in 1..Len(ids) |-> obs(coder_df(df, ids[i]), selected)]

\* for content_id in content_ids: ... observations.append(obs)
RECURSIVE grouped(_, _, _)
grouped(records, ids, selected) ==
    IF ids = <<>> THEN <<>>
    ELSE coder_observations(content_df(records, Head(ids)),
                            coders(content_df(records, Head(ids))), selected)
         \o grouped(records, Tail(ids), selected)

\* the (i, j, var) the three loops visit: i < j, var a key of both
comparisons(o) ==
    UNION {{<<p[1], p[2], x>> : x \in {y \in 1..Len(o[p[1]]) : HasKey(o[p[2]], o[p[1]][y].k)}} :
           p \in {q \in (1..Len(o)) \X (1..Len(o)) : q[1] < q[2]}}
agreements_all(o) == comparisons(o)
agreements(o) ==
    {c \in comparisons(o) : o[c[1]][c[3]].v = Get(o[c[2]], o[c[1]][c[3]].k)}

\* a ratio num / den, kept exact
Ratio(num, den) == [num |-> num, den |-> den]
calculate_percentage_agreement_both_orders(o) ==
    IF Len(o) < 2 \/ comparisons(o) = {} THEN Ratio(0, 1)
    ELSE Ratio(Cardinality(agreements(o)), 2 * Cardinality(comparisons(o)))
calculate_percentage_agreement(o) ==
    IF Len(o) < 2 \/ comparisons(o) = {} THEN Ratio(0, 1)
    ELSE Ratio(Cardinality(agreements(o)), Cardinality(comparisons(o)))

NoAgreement == Ratio(0, 0)
NoAlpha == Ratio(0, 0)

\* exact arithmetic on ratios with positive denominators
plus(a, b) == Ratio(a.num * b.den + b.num * a.den, a.den * b.den)
minus(a, b) == Ratio(a.num * b.den - b.num * a.den, a.den * b.den)
over(a, b) == Ratio(a.num * b.den, a.den * b.num)

\* list(categories.keys())
key_list(m) == [i \in 1..Len(m) |-> m[i].k]

\* values = [obs.get(var) for obs in observations if var in obs], by position
carrying(o, var) == {i \in 1..Len(o) : HasKey(o[i], var)}
\* for i in range(len(values)): for j in range(i+1, len(values))
value_pairs(o, var) == {q \in carrying(o, var) \X carrying(o, var) : q[1] < q[2]}
differing(o, var) == {q \in value_pairs(o, var) : Get(o[q[1]], var) # Get(o[q[2]], var)}

RECURSIVE total_pairs(_, _)
total_pairs(o, vs) ==
    IF vs = <<>> THEN 0
    ELSE Cardinality(value_pairs(o, Head(vs))) + total_pairs(o, Tail(vs))

\* observed_disagreement before the division by total_pairs
RECURSIVE disagreeing_pairs(_, _)
disagreeing_pairs(o, vs) ==
    IF vs = <<>> THEN 0
    ELSE Cardinality(differing(o, Head(vs))) + disagreeing_pairs(o, Tail(vs))

value_counts(o, var, val) == Cardinality({i \in carrying(o, var) : Get(o[i], var) = val})
counted_values(o, var) == {Get(o[i], var) : i \in carrying(o, var)}
total_values(o, var) == Cardinality(carrying(o, var))

\* for val1 in value_counts: for val2 in value_counts: if val1 != val2: the sum
\* of count(val1) * count(val2), each term over total_values squared
RECURSIVE products(_, _, _)
product_and_rest(o, var, ps, q) ==
    value_counts(o, var, q[1]) * value_counts(o, var, q[2]) + products(o, var, ps \ {q})
products(o, var, ps) ==
    IF ps = {} THEN 0 ELSE product_and_rest(o, var, ps, CHOOSE q \in ps : TRUE)

var_expected_disagreement_all_pairs(o, var) ==
    Ratio(products(o, var, counted_values(o, var) \X counted_values(o, var)),
          total_values(o, var) * total_values(o, var))
var_expected_disagreement(o, var) ==
    Ratio(products(o, var, {q \in counted_values(o, var) \X counted_values(o, var) : q[1] # q[2]}),
          total_values(o, var) * total_values(o, var))

\* the variables the second loop does not skip
counted(o, cats, var) == Get(cats, var) # {} /\ total_values(o, var) >= 2

\* expected_disagreement before the division by len(variables)
RECURSIVE expected_sum(_, _, _)
expected_sum(o, cats, vs) ==
    IF vs = <<>> THEN Ratio(0, 1)
    ELSE plus(IF counted(o, cats, Head(vs)) THEN var_expected_disagreement(o, Head(vs))
              ELSE Ratio(0, 1),
              expected_sum(o, cats, Tail(vs)))

expected_disagreement(o, cats) ==
    over(expected_sum(o, cats, key_list(cats)), Ratio(Len(cats), 1))
observed_disagreement(o, cats) ==
    Ratio(disagreeing_pairs(o, key_list(cats)), total_pairs(o, key_list(cats)))

\* a division by zero raises
ZeroDivisionError == Ratio(1, 0)

\* observed_disagreement /= total_pairs; expected_disagreement /= len(variables);
\* if expected_disagreement == 0: return 1; else 1 - observed / expected
alpha_of_undefined_as_zero(observed, expected) ==
    IF expected.num = 0 THEN Ratio(0, 1) ELSE minus(Ratio(1, 1), over(observed, expected))
alpha_of(observed, expected) ==
    IF observed.den = 0 \/ expected.den = 0 THEN ZeroDivisionError
    ELSE IF expected.num = 0 THEN Ratio(1, 1)
    ELSE minus(Ratio(1, 1), over(observed, expected))

calculate_krippendorff_alpha_unguarded(o, cats) ==
    IF Len(o) < 2 THEN Ratio(0, 1)
    ELSE alpha_of(observed_disagreement(o, cats), expected_disagreement(o, cats))
calculate_krippendorff_alpha(o, cats) ==
    IF Len(o) < 2 THEN Ratio(0, 1)
    ELSE IF total_pairs(o, key_list(cats)) = 0 THEN Ratio(0, 1)
    ELSE alpha_of(observed_disagreement(o, cats), expected_disagreement(o, cats))

\* categories[var] = list(values), the values of var in the observations
page_categories(o, selected) ==
    [i \in 1..Len(selected) |-> [k |-> selected[i], v |-> counted_values(o, selected[i])]]

\* the "calculate reliability" button, with the default methods: percentage
\* agreement and Krippendorff's alpha
calculate_reliability ==
    /\ pc = "button"
    /\ observations' = grouped(data_records, content_ids(data_records), selected_vars)
    /\ IF Len(observations') < 2
       THEN /\ pc' = "error"
            /\ UNCHANGED <<categories, agreement, alpha>>
       ELSE /\ pc' = "shown"
            /\ categories' = page_categories(observations', selected_vars)
            /\ agreement' = calculate_percentage_agreement(observations')
            /\ alpha' = calculate_krippendorff_alpha(observations', categories')
    /\ UNCHANGED <<inputs, data_records, selected_vars, retries, trace, request_vars,
                   frame_vars, parse_vars, fault, ret, outcome>>

\* a call of calculate_percentage_agreement(observations)
percentage_agreement ==
    /\ pc = "statistics"
    /\ agreement = NoAgreement
    /\ agreement' = calculate_percentage_agreement(observations)
    /\ UNCHANGED <<inputs, data_records, selected_vars, observations, categories, alpha, pc,
                   retries, trace, request_vars, frame_vars, parse_vars, fault, ret, outcome>>

\* a call of calculate_krippendorff_alpha(observations, categories)
alpha_coefficient ==
    /\ pc = "statistics"
    /\ alpha = NoAlpha
    /\ alpha' = calculate_krippendorff_alpha(observations, categories)
    /\ UNCHANGED <<inputs, data_records, selected_vars, observations, categories, agreement,
                   pc, retries, trace, request_vars, frame_vars, parse_vars, fault, ret,
                   outcome>>

\* ------------------------------------------------------ specifications

Blank ==
    /\ pc = "wrapper"
    /\ retries = 0
    /\ trace = <<>>
    /\ http_retry = 0
    /\ retry_delay = HTTP_RETRY_DELAY
    /\ response = NoResponse
    /\ frame_i = 0
    /\ frame_descriptions = <<>>
    /\ coding_result = NoneType
    /\ candidate = NoCandidate
    /\ stage = 0
    /\ fault = ""
    /\ ret = Pending
    /\ outcome = Pending
    /\ data_records = <<>>
    /\ selected_vars = <<>>
    /\ observations = <<>>
    /\ categories = <<>>
    /\ agreement = NoAgreement
    /\ alpha = NoAlpha

\* a call of auto_code_content or of auto_code_video
Init ==
    /\ func \in {"auto_code_content", "auto_code_video"}
    /\ max_retries = CODE_MAX_RETRIES
    /\ initial_backoff = CODE_INITIAL_BACKOFF
    /\ backoff_factor = CODE_BACKOFF_FACTOR
    /\ api_key \in ApiKeys
    /\ frames \in IF func = "auto_code_video" THEN FrameLists ELSE {<<>>}
    /\ variables \in IF Len(frames) > 1 THEN VideoVariableLists ELSE VariableLists
    /\ Blank

Next ==
    \/ wrapper_loop
    \/ wrapper_result
    \/ get_client
    \/ select_frames
    \/ describe_frame
    \/ join_descriptions
    \/ urlopen
    \/ sleep_and_retry
    \/ create_raised
    \/ read_description
    \/ read_response
    \/ try_stage1
    \/ try_stage2
    \/ try_stage3
    \/ try_stage4
    \/ handle_except
    \/ video_result

Spec == Init /\ [][Next]_vars

\* a call of a function decorated with retry_with_backoff(max_retries, ...)
InitRetry ==
    /\ func = "op"
    /\ max_retries \in 1..MaxRetries
    /\ initial_backoff \in InitialBackoffs
    /\ backoff_factor \in BackoffFactors
    /\ api_key = <<>>
    /\ variables = <<>>
    /\ frames = <<>>
    /\ Blank

NextRetry == wrapper_loop \/ wrapper_result \/ op

SpecRetry == InitRetry /\ [][NextRetry]_vars

\* the reliability page with codings loaded and the variable selected
InitReliability ==
    /\ func = "calculate_reliability"
    /\ max_retries = 0
    /\ initial_backoff = 0
    /\ backoff_factor = 0
    /\ api_key = <<>>
    /\ variables = <<>>
    /\ frames = <<>>
    /\ pc = "button"
    /\ retries = 0
    /\ trace = <<>>
    /\ http_retry = 0
    /\ retry_delay = HTTP_RETRY_DELAY
    /\ response = NoResponse
    /\ frame_i = 0
    /\ frame_descriptions = <<>>
    /\ coding_result = NoneType
    /\ candidate = NoCandidate
    /\ stage = 0
    /\ fault = ""
    /\ ret = Pending
    /\ outcome = Pending
    /\ \E c1 \in Codings, c2 \in Codings, coder \in {1, 2} :
           data_records = Codes(1, c1) \o Codes(coder, c2)
    /\ selected_vars = <<"v">>
    /\ observations = <<>>
    /\ categories = <<>>
    /\ agreement = NoAgreement
    /\ alpha = NoAlpha

NextReliability == calculate_reliability

SpecReliability == InitReliability /\ [][NextReliability]_vars

\* calls of calculate_percentage_agreement and of calculate_krippendorff_alpha
InitStatistics ==
    /\ func = "statistics"
    /\ max_retries = 0
    /\ initial_backoff = 0
    /\ backoff_factor = 0
    /\ api_key = <<>>
    /\ variables = <<>>
    /\ frames = <<>>
    /\ pc = "statistics"
    /\ retries = 0
    /\ trace = <<>>
    /\ http_retry = 0
    /\ retry_delay = HTTP_RETRY_DELAY
    /\ response = NoResponse
    /\ frame_i = 0
    /\ frame_descriptions = <<>>
    /\ coding_result = NoneType
    /\ candidate = NoCandidate
    /\ stage = 0
    /\ fault = ""
    /\ ret = Pending
    /\ outcome = Pending
    /\ data_records = <<>>
    /\ selected_vars = <<>>
    /\ observations \in ObservationLists
    /\ categories \in CategoryMaps
    /\ agreement = NoAgreement
    /\ alpha = NoAlpha

NextStatistics == percentage_agreement \/ alpha_coefficient

SpecStatistics == InitStatistics /\ [][NextStatistics]_vars

\* ------------------------------------------------------------- claims

Text == func = "auto_code_content"
Returned == pc = "done" /\ Text
Count(e) == Cardinality({i \in 1..Len(trace) : trace[i].e = e})
\* the requests sent for the text call (n = 0) or for the n-th selected frame
Requests(n) == Cardinality({i \in 1..Len(trace) : trace[i] = Ev("urlopen", n)})
CallsBefore(i) == Cardinality({j \in 1..(i - 1) : trace[j].e = "call"})
Options(var) == {options_map(var)[k] : k \in 1..Len(options_map(var))}
Names(vs) == {vs[i].name : i \in 1..Len(vs)}

\* C1 (P1, option containment): whenever auto_code_content returns a mapping that
\* holds the name of a categorical variable with a non-empty option list, the value
\* mapped to it is one of that variable's options.
C1_OptionContainment ==
    Returned /\ outcome.kind = "dict" =>
        \A i \in 1..Len(variables) :
            /\ in_options_map(variables[i])
            /\ options_map(variables[i]) # <<>>
            /\ HasKey(outcome.m, variables[i].name)
            => /\ Get(outcome.m, variables[i].name).t = "str"
               /\ Get(outcome.m, variables[i].name).s \in Options(variables[i])

\* C2 (P2, omission, not fabrication): a variable whose name is no key of the mapping
\* recovered from the reply has no entry in the mapping auto_code_content returns.
C2_Omission ==
    Returned /\ outcome.kind = "dict" =>
        \A i \in 1..Len(variables) :
            ~(candidate.t = "dict" /\ HasKey(candidate.m, variables[i].name))
            => ~HasKey(outcome.m, variables[i].name)

\* a reply that answers one of two declared variables, returned with that one entry
C2_Witness ==
    /\ Returned
    /\ outcome.kind = "dict"
    /\ stage = 2
    /\ Names(variables) = {<<"a">>, <<"b">>}
    /\ candidate.t = "dict"
    /\ Keys(candidate.m) = {<<"a">>}
    /\ Keys(outcome.m) = {<<"a">>}

\* C3 (every supplied value is resolved): for every variable whose name is a key of
\* the mapping recovered from the reply, auto_code_content returns a mapping with an
\* entry for that variable, whatever the JSON type of the value.
C3_SuppliedResolved ==
    Returned /\ candidate.t = "dict" =>
        \A i \in 1..Len(variables) :
            HasKey(candidate.m, variables[i].name)
            => outcome.kind = "dict" /\ HasKey(outcome.m, variables[i].name)

\* the mapping the extraction chain yields when its stages are tried in order and the
\* first that parses wins: the whole reply, the fenced block, the first brace to the
\* last, and at last the lines holding "="
from_braces(s) ==
    IF has_braces(s) /\ loads(brace_text(s)).ok THEN Recovered(loads(brace_text(s)))
    ELSE Recovered(Lines(line_parse(s)))
from_fence(s, json_match) ==
    IF json_match.found /\ loads(json_match.group).ok
    THEN Recovered(loads(json_match.group))
    ELSE from_braces(s)
FirstSuccess(s) ==
    IF loads(s).ok THEN Recovered(loads(s)) ELSE from_fence(s, re_search(s))

\* C4 (extractor fallback order): the mapping auto_code_content works from is the one
\* produced by the first stage, in the order 1 to 4, that succeeds on the reply; a
\* stage that fails hands the reply to the next stage, none being skipped.
C4_FallbackOrder ==
    Returned /\ coding_result.t = "str" => candidate = FirstSuccess(coding_result.s)

\* C5 (stage 1 accepts only JSON objects): a reply that parses as a JSON array or
\* scalar and has no fenced block, no braces and no "=" ends in the failure value None.
C5_ObjectsOnly ==
    /\ Returned
    /\ coding_result.t = "str"
    /\ loads(coding_result.s).ok
    /\ loads(coding_result.s).t # "dict"
    /\ ~re_search(coding_result.s).found
    /\ ~has_braces(coding_result.s)
    /\ find(coding_result.s, "=") = 0
    => outcome = None

\* C6 (non-empty mapping or explicit failure): auto_code_content never returns an
\* empty mapping.
C6_NonEmptyOrFailure == Returned /\ outcome.kind = "dict" => outcome.m # <<>>

\* C7 (no fault reaches the caller): a call of auto_code_content or auto_code_video
\* ends with a mapping or with None, and neither function ever ends by raising.
C7_NoFault ==
    /\ pc = "done" => outcome.kind \in {"dict", "None"}
    /\ pc = "returned" => ret.kind \in {"dict", "None"}

\* a video call whose frame was described and whose text request failed on every
\* attempt, caught by the outer handler
C7_Witness ==
    /\ pc = "done"
    /\ func = "auto_code_video"
    /\ fault = "outer"
    /\ frame_descriptions # <<>>
    /\ Requests(0) = HTTP_MAX_RETRIES
    /\ outcome = None

\* C8 (P7, retry count): an operation that fails on every attempt is invoked exactly
\* max_retries times and the failure of the last attempt is raised; one that first
\* succeeds on attempt k is invoked exactly k times and that attempt's result returned.
C8_RetryCount ==
    pc = "done" =>
        /\ outcome.kind \in {"raise", "value"}
        /\ outcome.kind = "raise" => Count("call") = max_retries /\ outcome.id = max_retries
        /\ outcome.kind = "value" =>
               /\ Count("call") = outcome.id
               /\ retries = outcome.id - 1
               /\ outcome.id <= max_retries

\* three attempts allowed, all of them failed
C8_Witness ==
    /\ pc = "done"
    /\ max_retries = 3
    /\ outcome = Raise(3)
    /\ Count("call") = 3

\* the sleep at trace[i], after n calls
sleep_ok(i, n) ==
    /\ n >= 1
    /\ n < max_retries
    /\ trace[i].d = initial_backoff * (backoff_factor ^ (n - 1))
    /\ trace[i - 1].e = "call"

\* C9 (backoff schedule): the sleep after the n-th failed attempt, n < max_retries,
\* lasts initial_backoff * backoff_factor^(n-1) and is followed by attempt n+1; there
\* is no sleep before the first attempt, after a success or after the last failure.
C9_BackoffSchedule ==
    /\ \A i \in 1..Len(trace) : trace[i].e = "sleep" => sleep_ok(i, CallsBefore(i))
    /\ \A i \in 1..(Len(trace) - 1) :
           /\ trace[i].e = "sleep" => trace[i + 1].e = "call"
           /\ trace[i].e = "call" => trace[i + 1].e = "sleep"
    /\ pc = "done" /\ outcome.kind = "raise" => Count("sleep") = max_retries - 1
    /\ pc = "done" /\ outcome.kind = "value" =>
           Count("sleep") = outcome.id - 1 /\ trace[Len(trace)].e = "call"

\* three failures under (3, 5, 2): sleeps of 5 and of 10, none after the last
C9_Witness ==
    /\ pc = "done"
    /\ outcome.kind = "raise"
    /\ trace = <<Ev("call", 0), Ev("sleep", 5), Ev("call", 0), Ev("sleep", 10),
                 Ev("call", 0)>>

\* the waits of a call, in order: the wrapper's and the request loop's
RECURSIVE waits(_, _)
waits(t, i) ==
    IF i > Len(t) THEN <<>>
    ELSE (IF t[i].e \in {"sleep", "http_sleep"} THEN <<t[i].d>> ELSE <<>>)
         \o waits(t, i + 1)

\* C10 (auto_code_content under RetryPolicy(2, 5 s, 2)): when the transport fails on
\* every attempt the request is attempted exactly twice, with one wait of 5 seconds
\* between the attempts, and the caller gets None.
C10_TwoAttempts ==
    Returned /\ Count("urlopen") > 0 /\ response = NoResponse =>
        /\ Count("urlopen") = CODE_MAX_RETRIES
        /\ waits(trace, 1) = <<CODE_INITIAL_BACKOFF>>
        /\ outcome = None

\* C11 (NoApiKey): with no credential configured (missing, empty or only whitespace)
\* the function is invoked once, performs no request to the chat-completion service
\* (text or vision), is not re-invoked by the wrapper, and the caller gets None.
C11_NoApiKey ==
    strip(api_key) = <<>> =>
        /\ Count("urlopen") = 0
        /\ Count("vision") = 0
        /\ Count("sleep") = 0
        /\ Count("call") <= 1
        /\ pc = "done" => outcome = None /\ trace = <<Ev("call", 0)>>

\* a video call with frames and variables but a key of whitespace, ended
C11_Witness ==
    /\ pc = "done"
    /\ func = "auto_code_video"
    /\ api_key = <<" ">>
    /\ frames # <<>>
    /\ variables # <<>>
    /\ outcome = None

\* the documented example: the reply {"sentiment": "Positive (strongly)"} coded on the
\* variable sentiment with the options positive, neutral, negative
ScenarioA ==
    /\ Returned
    /\ variables = <<VarSentiment>>
    /\ coding_result = StrVal(SentimentReply)
ScenarioAResult == Dict(<<[k |-> VarSentiment.name, v |-> StrVal(Positive)]>>)
\* best_match and best_score after the loop over the options of sentiment
ScenarioABest == fuzzy(options_map(VarSentiment), 1, PositiveStrongly, NoMatch)

\* C12 as stated (Scenario A repair): the example yields "positive" through the
\* fuzzy-match branch, the score of the option "positive" being greater than 0.5.
C12_FuzzyBranch ==
    ScenarioA =>
        /\ outcome = ScenarioAResult
        /\ ScenarioABest.found
        /\ ScenarioABest.match = Positive
        /\ 2 * ScenarioABest.num > ScenarioABest.den

\* C12 as amended: the example yields "positive", but as the first declared option:
\* the best score, that of "positive", is 7/19, which is not greater than 0.5.
C12_DefaultBranch ==
    ScenarioA =>
        /\ outcome = ScenarioAResult
        /\ ScenarioABest = [found |-> TRUE, match |-> Positive, num |-> 7, den |-> 19]
        /\ ~(2 * ScenarioABest.num > ScenarioABest.den)
        /\ options_map(VarSentiment)[1] = Positive

\* the example, returned by stage 1
C12_Witness == ScenarioA /\ stage = 1 /\ outcome.kind = "dict"

\* the options eligible for a value, and those of them whose score no other exceeds
\* (scores compared as fractions: common / longer length)
Eligible(opts, value) == {i \in 1..Len(opts) : similar(opts[i], value)}
NotBelow(opts, value, i, j) ==
    common(opts[j], value) * max(Len(opts[i]), Len(value))
        <= common(opts[i], value) * max(Len(opts[j]), Len(value))
Top(opts, value) ==
    {i \in Eligible(opts, value) : \A j \in Eligible(opts, value) : NotBelow(opts, value, i, j)}
AboveHalf(option, value) == 2 * common(option, value) > max(Len(option), Len(value))
\* a string value that is none of the options but has an eligible option scoring
\* more than 0.5
Repairable(opts, value) ==
    /\ value.t = "str"
    /\ value.s \notin {opts[k] : k \in 1..Len(opts)}
    /\ Top(opts, value.s) # {}
    /\ \E i \in Top(opts, value.s) : AboveHalf(opts[i], value.s)
\* a mapping validated by one of the stages 1 to 4
Validated == Returned /\ outcome.kind = "dict" /\ stage \in 1..4 /\ candidate.t = "dict"

\* C13 (P4, first max wins): a value repaired by the fuzzy match is replaced by the
\* earliest-declared of the eligible options that share the highest score.
C13_FirstMaxWins ==
    Validated =>
        \A i \in 1..Len(variables) :
            /\ in_options_map(variables[i])
            /\ HasKey(candidate.m, variables[i].name)
            /\ Repairable(options_map(variables[i]), Get(candidate.m, variables[i].name))
            => Get(outcome.m, variables[i].name) =
                   StrVal(options_map(variables[i])[
                       Min(Top(options_map(variables[i]),
                               Get(candidate.m, variables[i].name).s))])

\* the value "abca" on the options ab, abc, bca: abc and bca both score 3/4, and abc,
\* declared before bca but not the first option, is stored
C13_Witness ==
    /\ Validated
    /\ variables = <<VarT>>
    /\ HasKey(candidate.m, <<"a">>)
    /\ HasKey(outcome.m, <<"a">>)
    /\ Get(candidate.m, <<"a">>) = StrVal(<<"a", "b", "c", "a">>)
    /\ Top(options_map(VarT), <<"a", "b", "c", "a">>) = {2, 3}
    /\ Get(outcome.m, <<"a">>) = StrVal(<<"a", "b", "c">>)

\* the object of the documented example, and the replies that hold a text x in one
\* fenced block, tagged or not, alone or with text before or after it
TopicObject == <<"{", Q, "t", "o", "p", "i", "c", Q, ":", Q, "t", "e", "c", "h", Q, "}">>
Blocks == Bodies \cup {TopicObject}
Wrapped(x) ==
    { Fenced(x), FencedPlain(x), Fenced(x) \o TrailingLine, Fenced(x) \o OffListLine,
      <<"H", "e", "r", "e", " ", "i", "s", " ", "t", "h", "e", " ", "r", "e", "s", "u",
        "l", "t", ":", NL>> \o Fenced(x) \o <<NL, "T", "h", "a", "n", "k", "s">> }

\* C14 (Scenario D / P3, fenced block): on a reply that is no JSON as a whole and holds
\* a JSON object in a fenced block, with or without the json tag, the mapping stage 2
\* recovers is the result of parsing the block's content.
C14_FencedBlock ==
    [][\A x \in Blocks :
           /\ pc = "stage2"
           /\ coding_result.s \in Wrapped(x)
           /\ loads(x).ok
           /\ loads(x).t = "dict"
           => candidate' = Recovered(loads(x))]_vars

\* the documented example: the block's object recovered by stage 2 and returned
C14_Witness ==
    /\ Returned
    /\ variables = <<VarTopic>>
    /\ coding_result = StrVal(TopicReply)
    /\ TopicReply \in Wrapped(TopicObject)
    /\ stage = 2
    /\ candidate = Recovered(loads(TopicObject))
    /\ outcome = Dict(<<[k |-> VarTopic.name, v |-> StrVal(<<"t", "e", "c", "h">>)]>>)

\* the lines of a text, as pairs <<first index, last index>> (an empty line has
\* last = first - 1), and what a line holding "=" gives: the text left of its first
\* "=" and the text right of it, both trimmed
LineSpans(s) ==
    {sp \in (1..(Len(s) + 1)) \X (0..Len(s)) :
         /\ sp[1] <= sp[2] + 1
         /\ sp[1] = 1 \/ s[sp[1] - 1] = NL
         /\ sp[2] = Len(s) \/ s[sp[2] + 1] = NL
         /\ \A k \in sp[1]..sp[2] : s[k] # NL}
EqLines(s) == {sp \in LineSpans(s) : \E k \in sp[1]..sp[2] : s[k] = "="}
FirstEq(s, sp) == Min({k \in sp[1]..sp[2] : s[k] = "="})
KeyOf(s, sp) == strip(SubSeq(s, sp[1], FirstEq(s, sp) - 1))
ValueOf(s, sp) == StrVal(strip(SubSeq(s, FirstEq(s, sp) + 1, sp[2])))
\* m holds, for every line with "=", its key, with the value of the last line that
\* has this key, and holds nothing else
LinesRecovered(s, m) ==
    /\ \A sp \in EqLines(s) :
           /\ HasKey(m, KeyOf(s, sp))
           /\ (\A later \in EqLines(s) :
                   later[1] > sp[1] => KeyOf(s, later) # KeyOf(s, sp))
              => Get(m, KeyOf(s, sp)) = ValueOf(s, sp)
    /\ \A k \in Keys(m) : \E sp \in EqLines(s) : KeyOf(s, sp) = k
    /\ Cardinality(Keys(m)) = Len(m)

\* C15 (P3, key=value fallback): on a reply that is no JSON and holds no fenced block
\* and no brace, the mapping recovered holds exactly the lines containing "=": the
\* trimmed text left of the first "=" mapped to the trimmed text right of it.
C15_KeyValueLines ==
    /\ Returned
    /\ coding_result.t = "str"
    /\ ~loads(coding_result.s).ok
    /\ ~re_search(coding_result.s).found
    /\ find(coding_result.s, "{") = 0
    /\ find(coding_result.s, "}") = 0
    => /\ candidate.t = "dict"
       /\ LinesRecovered(coding_result.s, candidate.m)

\* two lines, the second with a further "=" in its value, recovered and returned
C15_Witness ==
    /\ Returned
    /\ coding_result = StrVal(<<"a", "=", "n", "o", NL, "b", "=", "x", "=", "y">>)
    /\ variables = <<VarA, VarB>>
    /\ stage = 4
    /\ candidate.m = <<[k |-> <<"a">>, v |-> StrVal(<<"n", "o">>)],
                       [k |-> <<"b">>, v |-> StrVal(<<"x", "=", "y">>)]>>
    /\ outcome = Dict(candidate.m)

Video == func = "auto_code_video"
\* the timestamps of the events e of the trace, in the order of the trace
RECURSIVE stamps(_, _, _)
stamps(t, i, e) ==
    IF i > Len(t) THEN <<>>
    ELSE (IF t[i].e = e THEN <<t[i].d>> ELSE <<>>) \o stamps(t, i + 1, e)
Ascending(ts) == \A i \in 1..(Len(ts) - 1) : ts[i] < ts[i + 1]
\* the (up to) four smallest timestamps of a frame list
Earliest(fs) ==
    {fs[i] : i \in {i \in 1..Len(fs) :
                        Cardinality({j \in 1..Len(fs) : fs[j] < fs[i]}) < 4}}

\* C16 (video frame bound): auto_code_video asks the vision model about at most 4
\* frames, and those are the frames with the smallest timestamps of the input.
C16_FrameBound ==
    Video =>
        /\ Count("vision") <= 4
        /\ \A i \in 1..Len(trace) :
               trace[i].e = "vision" => trace[i].d \in Earliest(frames)

\* C17 (video ordering): the frames are processed, and their descriptions joined, in
\* ascending timestamp order, whatever list the caller supplies and whichever vision
\* calls fail.
C17_AscendingOrder ==
    Video => Ascending(stamps(trace, 1, "vision")) /\ Ascending(frame_descriptions)

\* the frame loop of a video call is over
LoopOver == Video /\ frames # <<>> /\ strip(api_key) # <<>> /\ ~vision_call
                  /\ pc \in {"request", "sleep", "raise", "response", "vparse", "returned", "done"}
Failed(t) == t \in {trace[i].d : i \in {i \in 1..Len(trace) : trace[i].e = "vision_failed"}}
Described(t) == t \in {frame_descriptions[i] : i \in 1..Len(frame_descriptions)}

\* C18 (partial frame failure is not fatal): when the vision call of a selected frame
\* fails and another frame is described, every selected frame has been processed, the
\* description joined holds the described frames in their order and nothing of the
\* failed ones, and the call goes on to the text-model request.
C18_PartialFailure ==
    LoopOver /\ Count("vision_failed") > 0 /\ frame_descriptions # <<>> =>
        /\ stamps(trace, 1, "vision") = selected_frames(frames)
        /\ \A i \in 1..Len(frames) : Failed(frames[i]) => ~Described(frames[i])
        /\ frame_descriptions = SelectSeq(selected_frames(frames), Described)
        /\ pc = "request" \/ Requests(0) > 0

\* of the four frames selected the second failed on every request and the fourth on
\* its first, the other two are described, and the text model's reply was returned as
\* a mapping
C18_Witness ==
    /\ Video
    /\ pc = "done"
    /\ frames = <<40, 0, 10, 20, 30>>
    /\ stamps(trace, 1, "vision_failed") = <<0, 20>>
    /\ Requests(2) = HTTP_MAX_RETRIES
    /\ Requests(4) = 1
    /\ frame_descriptions = <<40, 10>>
    /\ outcome.kind = "dict"
    /\ outcome.m # <<>>

\* C19 (zero describable frames): when no selected frame gets a description, the call
\* ends with the failure value and no text-model request is made on the empty
\* description.
C19_ZeroFrames ==
    LoopOver /\ frame_descriptions = <<>> =>
        /\ Requests(0) = 0
        /\ pc = "done" => outcome = None

\* C20 (Scenario B): two coders code the same three content items on one
\* categorical variable, the first with A, A, B and the second with A, B, B; the
\* percentage agreement the reliability page computes from them is 2/3.
ScenarioB == data_records = Codes(1, <<"A", "A", "B">>) \o Codes(2, <<"A", "B", "B">>)
C20_ScenarioB ==
    (pc = "shown" /\ ScenarioB) => 3 * agreement.num = 2 * agreement.den

\* the statistics, as the claims state them
Computed == pc = "statistics" /\ agreement # NoAgreement
Shared(o) ==
    {c \in (1..Len(o)) \X (1..Len(o)) \X {"v", "w"} :
        c[1] < c[2] /\ c[3] \in Keys(o[c[1]]) \cap Keys(o[c[2]])}
Agreeing(o) == {c \in Shared(o) : Get(o[c[1]], c[3]) = Get(o[c[2]], c[3])}

\* C21 (P5 bounds): percentage_agreement returns a value in [0, 1], equal to
\* the agreements divided by the comparisons counted over all unordered pairs
\* of observations and all variables present in both, and 0 when there is no
\* comparison.
C21_AgreementBounds ==
    Computed =>
        /\ agreement.den > 0
        /\ 0 <= agreement.num /\ agreement.num <= agreement.den
        /\ IF Shared(observations) = {} THEN agreement.num = 0
           ELSE agreement.num * Cardinality(Shared(observations))
                    = Cardinality(Agreeing(observations)) * agreement.den
C21_Witness ==
    /\ Computed
    /\ Agreeing(observations) # {}
    /\ Agreeing(observations) # Shared(observations)

\* C22 (P5 perfect agreement), as stated: percentage_agreement returns exactly
\* 1 whenever every pair of observations agrees on every variable the two share.
AllAgree == Agreeing(observations) = Shared(observations)
C22_PerfectAgreement ==
    Computed /\ AllAgree => agreement.num = agreement.den

\* C22, amended: percentage_agreement returns exactly 1 when at least one pair
\* of observations shares a variable and every pair agrees on every variable
\* the two share; with no comparison at all it returns 0.
C22_PerfectAgreementCompared ==
    Computed /\ AllAgree =>
        IF Shared(observations) = {} THEN agreement.num = 0
        ELSE agreement.num = agreement.den /\ agreement.den > 0
C22_Witness ==
    /\ Computed
    /\ AllAgree
    /\ Cardinality(Shared(observations)) >= 3
    /\ agreement.num = agreement.den

\* the rows of the content items that at least two distinct coders coded
CodersOf(records, id) ==
    {records[i].coder_id : i \in {j \in 1..Len(records) : records[j].content_id = id}}
WellCoded(records) ==
    SelectSeq(records, LAMBDA r : Cardinality(CodersOf(records, r.content_id)) >= 2)
WithoutUnderCoded ==
    grouped(WellCoded(data_records), content_ids(WellCoded(data_records)), selected_vars)
RECURSIVE CodingsOf(_, _)
CodingsOf(records, ids) ==
    IF ids = <<>> THEN 0
    ELSE Cardinality(CodersOf(records, Head(ids))) + CodingsOf(records, Tail(ids))

\* C23: a content item coded by fewer than 2 distinct coders contributes no
\* observation: the observations, and with them the percentage agreement and
\* the alpha coefficient, are those of the dataset without that item's rows.
C23_UnderCodedExcluded ==
    pc \in {"shown", "error"} =>
        /\ observations = WithoutUnderCoded
        /\ Len(observations)
              = CodingsOf(WellCoded(data_records), content_ids(WellCoded(data_records)))
        /\ pc = "error" <=> Len(WithoutUnderCoded) < 2
        /\ pc = "shown" =>
              /\ agreement = calculate_percentage_agreement(WithoutUnderCoded)
              /\ alpha = calculate_krippendorff_alpha(WithoutUnderCoded,
                             page_categories(WithoutUnderCoded, selected_vars))
C23_Witness ==
    /\ pc = "shown"
    /\ WellCoded(data_records) # data_records
    /\ Len(observations) = 4

\* alpha, as the claims state it
AlphaComputed == pc = "statistics" /\ alpha # NoAlpha
ValuesOf(o, var) == {Get(o[i], var) : i \in {j \in 1..Len(o) : var \in Keys(o[j])}}
Usable(o, var) == Cardinality({j \in 1..Len(o) : var \in Keys(o[j])})
TwoUsable == \E var \in Keys(categories) : Usable(observations, var) >= 2
NoVariation == \A var \in Keys(categories) : Cardinality(ValuesOf(observations, var)) <= 1
IsOne(r) == r.den # 0 /\ r.num = r.den
IsZero(r) == r.den # 0 /\ r.num = 0

\* C24 (P6 alpha boundary): alpha_coefficient returns exactly 1 when two or more
\* observations are usable and, for every variable, all observed values are
\* identical (Scenario C: 5 coders with the same value on one variable); it
\* returns 0 when no variable has 2 usable observations.
C24_AlphaBoundary ==
    AlphaComputed =>
        /\ ~TwoUsable => IsZero(alpha)
        /\ TwoUsable /\ NoVariation => IsOne(alpha)
ScenarioC ==
    /\ observations = [i \in 1..5 |-> <<[k |-> "v", v |-> "A"]>>]
    /\ categories = <<[k |-> "v", v |-> Categories]>>
C24_Witness == AlphaComputed /\ ScenarioC /\ IsOne(alpha)

\* the expected disagreement, as the spec states it: per variable the sum of
\* P(v1) * P(v2) over the ordered pairs of distinct values, which is
\* 1 - P(A)^2 - P(B)^2, averaged over the variables that contribute
Occurrences(o, var, val) ==
    Cardinality({j \in 1..Len(o) : var \in Keys(o[j]) /\ Get(o[j], var) = val})
Contributes(var) ==
    /\ var \in Keys(categories)
    /\ Get(categories, var) # {}
    /\ Usable(observations, var) >= 2
PerVariable(var) ==
    IF Contributes(var)
    THEN Ratio(Usable(observations, var) * Usable(observations, var)
                  - Occurrences(observations, var, "A") * Occurrences(observations, var, "A")
                  - Occurrences(observations, var, "B") * Occurrences(observations, var, "B"),
               Usable(observations, var) * Usable(observations, var))
    ELSE Ratio(0, 1)
Contributing == Cardinality({var \in {"v", "w"} : Contributes(var)})
MeanExpected ==
    IF Contributing = 0 THEN Ratio(0, 1)
    ELSE over(plus(PerVariable("v"), PerVariable("w")), Ratio(Contributing, 1))
SameRatio(a, b) == a.num * b.den = b.num * a.den

\* C25: the expected disagreement alpha_coefficient uses is the mean, over exactly
\* the variables with at least 2 observed values (and a non-empty category
\* list), of the per-variable sum of P(v1) * P(v2) over ordered pairs of distinct
\* values; the other variables do not count in the divisor.
C25_ExpectedMean ==
    AlphaComputed /\ TwoUsable =>
        /\ SameRatio(expected_disagreement(observations, categories), MeanExpected)
        /\ alpha = alpha_of(observed_disagreement(observations, categories), MeanExpected)

\* C26 (alpha range): for every list of observations and every categories
\* mapping alpha_coefficient returns a value <= 1 and no division by zero
\* happens: where the pair total or the number of variables is zero the function
\* has returned before dividing, and a zero expected disagreement gives 1.
C26_AlphaRange ==
    AlphaComputed =>
        /\ alpha # ZeroDivisionError
        /\ alpha.den > 0
        /\ alpha.num <= alpha.den
C26_Witness == AlphaComputed /\ alpha.den > 0 /\ alpha.num < 0 /\ Len(categories) = 2

\* complete data: each of n >= 2 observations carries every variable of categories
Complete ==
    /\ Len(observations) >= 2
    /\ \A var \in Keys(categories) :
          \A i \in 1..Len(observations) : var \in Keys(observations[i])
\* categories names a variable, and lists values for every variable it names, as the
\* mapping the reliability page builds from the observed values does
ValuesListed ==
    /\ Len(categories) >= 1
    /\ \A var \in Keys(categories) : Get(categories, var) # {}
\* 1 if no variable shows any variation, and otherwise -1 / (n - 1)
Degenerate ==
    IF NoVariation THEN IsOne(alpha)
    ELSE /\ alpha.den > 0
         /\ alpha.num * (Len(observations) - 1) = - alpha.den

\* C29 as stated (degenerate alpha on complete data): when each of n >= 2
\* observations carries every variable of categories, alpha_coefficient returns 1
\* if no variable shows any variation and otherwise -1 / (n - 1), however the
\* values are distributed; so it is never strictly between 0 and 1.
C29_DegenerateAlpha == AlphaComputed /\ Complete => Degenerate

\* C29, amended: the same, for a categories mapping that names at least one variable
\* and lists at least one value for every variable it names; the value is then
\* negative whenever two observations differ, and never strictly between 0 and 1.
C29_DegenerateAlphaListed ==
    AlphaComputed /\ Complete /\ ValuesListed =>
        /\ Degenerate
        /\ ~NoVariation => alpha.num < 0
        /\ ~(alpha.num > 0 /\ alpha.num < alpha.den)
C29_Witness ==
    /\ AlphaComputed
    /\ Complete
    /\ ValuesListed
    /\ ~NoVariation
    /\ Len(observations) = 5
    /\ Len(categories) = 2
    /\ alpha.num * 4 = - alpha.den

\* the validation rule of the spec for a string value and a non-empty option list
Reference(opts, value) ==
    IF \E k \in 1..Len(opts) : opts[k] = value THEN value
    ELSE IF Top(opts, value) # {} /\ AboveHalf(opts[Min(Top(opts, value))], value)
         THEN opts[Min(Top(opts, value))]
    ELSE opts[1]
Supplied(i) == HasKey(candidate.m, variables[i].name)
StringFor(i) ==
    /\ in_options_map(variables[i])
    /\ options_map(variables[i]) # <<>>
    /\ Supplied(i)
    /\ Get(candidate.m, variables[i].name).t = "str"

\* C27 (per-variable validation rule): a string value supplied for a categorical
\* variable with a non-empty option list is validated to itself if it equals an
\* option, otherwise to the eligible option of highest score if that score exceeds
\* 0.5, otherwise to the first declared option; the value supplied for a variable
\* of another type is returned unchanged.
C27_ValidationRule ==
    Validated =>
        \A i \in 1..Len(variables) :
            /\ StringFor(i) =>
                  /\ HasKey(outcome.m, variables[i].name)
                  /\ Get(outcome.m, variables[i].name) =
                        StrVal(Reference(options_map(variables[i]),
                                         Get(candidate.m, variables[i].name).s))
            /\ (Supplied(i) /\ variables[i].type # Categorical) =>
                  /\ HasKey(outcome.m, variables[i].name)
                  /\ Get(outcome.m, variables[i].name) = Get(candidate.m, variables[i].name)
C27_Witness ==
    /\ Validated
    /\ \E i \in 1..Len(variables) :
          /\ StringFor(i)
          /\ HasKey(outcome.m, variables[i].name)
          /\ Get(candidate.m, variables[i].name).s \notin Options(variables[i])
          /\ Top(options_map(variables[i]), Get(candidate.m, variables[i].name).s) # {}
          /\ Get(outcome.m, variables[i].name).s = options_map(variables[i])[1]
    /\ \E j \in 1..Len(variables) :
          /\ Supplied(j)
          /\ variables[j].type # Categorical
          /\ HasKey(outcome.m, variables[j].name)

\* what auto_code_content returns on a reply: its stages followed from stage 1
RECURSIVE TextFrom(_, _, _)
TextFrom(st, reply, vs) ==
    CASE st.to = "return" -> Dict(st.m)
      [] st.to = "outer" -> outer_except
      [] st.to = "except" -> Dict(inner_except(reply).m)
      [] st.to = "stage2" -> TextFrom(stage2(reply, vs), reply, vs)
      [] st.to = "stage3" -> TextFrom(stage3(reply, vs), reply, vs)
      [] OTHER -> TextFrom(stage4(reply, vs), reply, vs)
TextOutcome(reply, vs) == TextFrom(stage1(reply, vs), reply, vs)
VideoRead == Video /\ pc = "done" /\ coding_result.t = "str"

\* C28: after the description step auto_code_video goes on as auto_code_content does:
\* for the same variables and the same reply of the text model the two return the
\* same outcome, whatever the shape of the reply (bare JSON, fenced JSON, JSON in
\* prose, key=value lines, unparseable text).
C28_VideoAsText ==
    VideoRead => outcome = TextOutcome(coding_result, variables)

\* C30 (result keys are declared variables): every key of a mapping
\* auto_code_content returns is the name of one of the variables passed in; a key
\* of the reply that names no declared variable is in no result, on any
\* extraction or fallback path.
C30_DeclaredKeys ==
    Returned /\ outcome.kind = "dict" => Keys(outcome.m) \subseteq Names(variables)

====
